---- MODULE Spec2Model ----
(***************************************************************************)
(* Business-card sheet script: the doGet / doPost boundary, saveData and   *)
(* getSheetData, in the Extended (22 column) and the Legacy (12 column)    *)
(* variant of the script.                                                  *)
(*                                                                         *)
(* JavaScript strings are sequences of one-character strings, so that      *)
(* replace(/"/g, '""'), trim() and concatenation are computed character by *)
(* character.  JavaScript values are records [t |-> type, v |-> payload].  *)
(***************************************************************************)
EXTENDS Integers, Sequences, FiniteSets

\* ------------------------------------------------------------- bounds
\* concurrent executions of the script (SpecConc)
NumWorkers == 2
\* requests that arrive in one behaviour of SpecConc
MaxRequests == 2
\* longest validation_source / company text drawn as an input
MaxStrLen == 2
\* longest key_people list drawn as an input
MaxPeople == 2
\* data rows below the header in a sheet drawn as an initial store
MaxDataRows == 2

\* ---------------------------------------------------- program constants
\* cells of the row appended by the Legacy script (columns A-L)
LegacyColumns == 12
\* cells of the row appended by the Extended script (columns A-V)
ExtendedColumns == 22

\* ------------------------------------------------------ string literals
\* 'Script Error: '
ScriptErrorPrefix ==
  <<"S","c","r","i","p","t"," ","E","r","r","o","r",":"," ">>
\* 'Invalid POST request received.'
InvalidPostMsg ==
  <<"I","n","v","a","l","i","d"," ","P","O","S","T"," ","r","e","q","u","e","s","t"," ","r","e",
    "c","e","i","v","e","d",".">>
\* 'Invalid action specified: '
InvalidActionPrefix ==
  <<"I","n","v","a","l","i","d"," ","a","c","t","i","o","n"," ","s","p","e","c","i","f","i","e",
    "d",":"," ">>
\* 'extract'
ActExtract ==
  <<"e","x","t","r","a","c","t">>
\* 'save'
ActSave ==
  <<"s","a","v","e">>
\* 'read'
ActRead ==
  <<"r","e","a","d">>
\* 'AI Server Error: '
AiServerErrorPrefix ==
  <<"A","I"," ","S","e","r","v","e","r"," ","E","r","r","o","r",":"," ">>
\* "Sheet with name 'Ai Card' not found."
SheetNameNotFoundMsg ==
  <<"S","h","e","e","t"," ","w","i","t","h"," ","n","a","m","e"," ","'","A","i"," ","C","a","r",
    "d","'"," ","n","o","t"," ","f","o","u","n","d",".">>
\* 'FAILED to access Spreadsheet. Check SHEET_ID or Sheet Name. Details: '
SpreadsheetFailPrefix ==
  <<"F","A","I","L","E","D"," ","t","o"," ","a","c","c","e","s","s"," ","S","p","r","e","a","d",
    "s","h","e","e","t","."," ","C","h","e","c","k"," ","S","H","E","E","T","_","I","D"," ","o",
    "r"," ","S","h","e","e","t"," ","N","a","m","e","."," ","D","e","t","a","i","l","s",":"," ">>
\* 'FAILED to access Drive Folder. Check FOLDER_ID. Details: '
FolderFailPrefix ==
  <<"F","A","I","L","E","D"," ","t","o"," ","a","c","c","e","s","s"," ","D","r","i","v","e"," ",
    "F","o","l","d","e","r","."," ","C","h","e","c","k"," ","F","O","L","D","E","R","_","I","D",
    "."," ","D","e","t","a","i","l","s",":"," ">>
\* 'Failed to save Image 1: '
Image1FailPrefix ==
  <<"F","a","i","l","e","d"," ","t","o"," ","s","a","v","e"," ","I","m","a","g","e"," ","1",":",
    " ">>
\* 'Error saving image 2: '
Image2ErrorPrefix ==
  <<"E","r","r","o","r"," ","s","a","v","i","n","g"," ","i","m","a","g","e"," ","2",":"," ">>
\* 'Source'
SourceLabel ==
  <<"S","o","u","r","c","e">>
\* '=HYPERLINK("'
HyperlinkOpen ==
  <<"=","H","Y","P","E","R","L","I","N","K","(","\"">>
\* '", "'
HyperlinkMid ==
  <<"\"",","," ","\"">>
\* ' Link")'
HyperlinkClose ==
  <<" ","L","i","n","k","\"",")">>
\* 'Not Found'
NotFound ==
  <<"N","o","t"," ","F","o","u","n","d">>
\* 'Founder: '
FounderPrefix ==
  <<"F","o","u","n","d","e","r",":"," ">>
\* 'CEO: '
CeoPrefix ==
  <<"C","E","O",":"," ">>
\* 'Owner: '
OwnerPrefix ==
  <<"O","w","n","e","r",":"," ">>
\* 'Sheet not found: Ai Card'
SheetNotFoundMsg ==
  <<"S","h","e","e","t"," ","n","o","t"," ","f","o","u","n","d",":"," ","A","i"," ","C","a","r",
    "d">>
\* 'undefined'
UndefinedText ==
  <<"u","n","d","e","f","i","n","e","d">>
\* 'true'
TrueText ==
  <<"t","r","u","e">>
\* 'false'
FalseText ==
  <<"f","a","l","s","e">>
\* the confirmation text; its leading check-mark emoji is the one symbol "U+2705"
SavedMsg ==
  <<"U+2705"," ","D","a","t","a"," ","s","a","v","e","d"," ","s","u","c","c","e","s","s","f","u",
    "l","l","y","!">>
Quote == "\""
Newline == "\n"

\* ------------------------------------------------------ JavaScript values
Undefined == [t |-> "undefined", v |-> <<>>]
Str(s) == [t |-> "string", v |-> s]
Bool(b) == [t |-> "boolean", v |-> IF b THEN TrueText ELSE FalseText]
DigitChar(n) == <<"0","1","2","3","4","5","6","7","8","9">>[n + 1]
\* a Date holding clock reading n
DateValue(n) == [t |-> "date", v |-> <<DigitChar(n)>>]
\* an array of objects
Arr(items) == [t |-> "array", v |-> items]
\* an object: a function from property names to values
Obj(props) == [t |-> "object", v |-> props]
EmptyObject == Obj(<<>>)

IsString(x) == x.t = "string"
\* ToBoolean
Truthy(x) ==
  CASE x.t = "undefined" -> FALSE
    [] x.t = "string" -> x.v # <<>>
    [] x.t = "boolean" -> x.v = TrueText
    [] OTHER -> TRUE
\* a || b
OrElse(a, b) == IF Truthy(a) THEN a ELSE b
\* o.name on an object: undefined for a missing property
Get(o, name) == IF name \in DOMAIN o.v THEN o.v[name] ELSE Undefined
\* String(x), as used for a property key and by "+" on a string
StringOf(x) ==
  CASE x.t = "string" -> x.v
    [] x.t = "undefined" -> UndefinedText
    [] x.t = "boolean" -> x.v
    [] x.t = "date" -> <<"@">> \o x.v
    [] OTHER -> <<"[","o","b","j","e","c","t","]">>

\* ---------------------------------------------------------- string methods
RECURSIVE ReplaceAllQuotesFrom(_, _)
ReplaceAllQuotesFrom(s, i) ==
  IF i > Len(s) THEN <<>>
  ELSE (IF s[i] = Quote THEN <<Quote, Quote>> ELSE <<s[i]>>) \o ReplaceAllQuotesFrom(s, i + 1)
\* s.replace(/"/g, '""') without the g flag: only the first match is replaced
ReplaceFirstQuote(s) ==
  IF \E i \in 1..Len(s) : s[i] = Quote
  THEN LET k == CHOOSE i \in 1..Len(s) : s[i] = Quote /\ \A j \in 1..(i - 1) : s[j] # Quote
       IN SubSeq(s, 1, k) \o <<Quote>> \o SubSeq(s, k + 1, Len(s))
  ELSE s
RECURSIVE ReplaceUnescapedFrom(_, _)
\* an escape that leaves an already doubled quote as it is
ReplaceUnescapedFrom(s, i) ==
  IF i > Len(s) THEN <<>>
  ELSE IF s[i] = Quote /\ i < Len(s) /\ s[i + 1] = Quote
       THEN <<Quote, Quote>> \o ReplaceUnescapedFrom(s, i + 2)
       ELSE (IF s[i] = Quote THEN <<Quote, Quote>> ELSE <<s[i]>>) \o ReplaceUnescapedFrom(s, i + 1)
ReplaceKeepingEscaped(s) == ReplaceUnescapedFrom(s, 1)
\* s.replace(/"/g, '""')
ReplaceAllQuotes(s) == ReplaceAllQuotesFrom(s, 1)

IsSpace(c) == c \in {" ", "\t", "\n"}
\* s.trim()
Trim(s) ==
  IF \A i \in 1..Len(s) : IsSpace(s[i]) THEN <<>>
  ELSE LET a == CHOOSE i \in 1..Len(s) : ~IsSpace(s[i]) /\ \A j \in 1..(i - 1) : IsSpace(s[j])
           b == CHOOSE i \in 1..Len(s) : ~IsSpace(s[i]) /\ \A j \in (i + 1)..Len(s) : IsSpace(s[j])
       IN SubSeq(s, a, b)
RECURSIVE JoinFrom(_, _, _)
JoinFrom(parts, sep, i) ==
  IF i > Len(parts) THEN <<>>
  ELSE parts[i] \o (IF i < Len(parts) THEN sep ELSE <<>>) \o JoinFrom(parts, sep, i + 1)
\* parts.join(sep)
Join(parts, sep) == JoinFrom(parts, sep, 1)

\* ------------------------------------------------------------ saveData: pure steps
\* safeUrl / safeName: the escaping of a text embedded in the formula
SafeText(s) == ReplaceAllQuotes(s)
\* the hyperlink step: validationLink from the record
ValidationLink(extractedData) ==
  LET validation_source == Get(extractedData, "validation_source")
      companyName == OrElse(Get(extractedData, "company"), Str(SourceLabel))
  IN IF Truthy(Get(extractedData, "is_validated")) /\ Truthy(validation_source)
     THEN Str(HyperlinkOpen \o SafeText(validation_source.v) \o HyperlinkMid
              \o SafeText(companyName.v) \o HyperlinkClose)
     ELSE OrElse(validation_source, Str(<<>>))

\* a person rendered without looking at the "Not Found" sentinel
PersonDetailsNoSentinel(p) ==
  LET details == StringOf(Get(p, "name")) \o <<" ", "(">> \o StringOf(Get(p, "role")) \o <<")">>
  IN IF Truthy(Get(p, "contact"))
     THEN details \o <<" ", "-", " ">> \o StringOf(Get(p, "contact"))
     ELSE details
\* the body of the map() callback
PersonDetails(p) ==
  LET details == StringOf(Get(p, "name")) \o <<" ", "(">> \o StringOf(Get(p, "role")) \o <<")">>
      contact == Get(p, "contact")
  IN IF Truthy(contact) /\ contact # Str(NotFound)
     THEN details \o <<" ", "-", " ">> \o StringOf(contact)
     ELSE details
\* parts of the fallback: one push per non-empty field, in source order
FallbackParts(extractedData) ==
  (IF Truthy(Get(extractedData, "founder"))
   THEN <<FounderPrefix \o StringOf(Get(extractedData, "founder"))>> ELSE <<>>)
  \o (IF Truthy(Get(extractedData, "ceo"))
      THEN <<CeoPrefix \o StringOf(Get(extractedData, "ceo"))>> ELSE <<>>)
  \o (IF Truthy(Get(extractedData, "owner"))
      THEN <<OwnerPrefix \o StringOf(Get(extractedData, "owner"))>> ELSE <<>>)
\* keyPeopleString
KeyPeopleString(extractedData) ==
  LET key_people == Get(extractedData, "key_people")
  IN IF Truthy(key_people) /\ key_people.t = "array"
     THEN Join([i \in 1..Len(key_people.v) |-> PersonDetails(key_people.v[i])], <<Newline>>)
     ELSE Join(FallbackParts(extractedData), <<Newline>>)

\* extractedData.f || ""
FieldOrEmpty(extractedData, f) == OrElse(Get(extractedData, f), Str(<<>>))
\* the array handed to appendRow by the Extended script, columns A-V
ExtendedRow(extractedData, timestamp, url1, url2, validationLink, keyPeopleString) ==
  << DateValue(timestamp),
     Str(url1),
     Str(url2),
     FieldOrEmpty(extractedData, "company"),
     FieldOrEmpty(extractedData, "industry"),
     FieldOrEmpty(extractedData, "name"),
     FieldOrEmpty(extractedData, "title"),
     FieldOrEmpty(extractedData, "phone"),
     FieldOrEmpty(extractedData, "email"),
     FieldOrEmpty(extractedData, "website"),
     FieldOrEmpty(extractedData, "social_media"),
     FieldOrEmpty(extractedData, "address"),
     FieldOrEmpty(extractedData, "services"),
     FieldOrEmpty(extractedData, "company_size"),
     OrElse(Get(extractedData, "established_year"), FieldOrEmpty(extractedData, "founded_year")),
     FieldOrEmpty(extractedData, "registration_status"),
     FieldOrEmpty(extractedData, "trust_score"),
     Str(keyPeopleString),
     Get(extractedData, "is_validated"),
     validationLink,
     FieldOrEmpty(extractedData, "about_the_company"),
     FieldOrEmpty(extractedData, "location") >>
\* the array handed to appendRow by the Legacy script, columns A-L
LegacyRow(extractedData, timestamp, url1, url2, validationLink) ==
  << DateValue(timestamp),
     Str(url1),
     Str(url2),
     FieldOrEmpty(extractedData, "company"),
     FieldOrEmpty(extractedData, "name"),
     FieldOrEmpty(extractedData, "phone"),
     FieldOrEmpty(extractedData, "email"),
     FieldOrEmpty(extractedData, "address"),
     Get(extractedData, "is_validated"),
     validationLink,
     FieldOrEmpty(extractedData, "about_the_company"),
     FieldOrEmpty(extractedData, "location") >>

\* ------------------------------------------------------------------ the sheet
\* A stored cell is [value, formula]: formula is "" for a cell without one.
\* the value a formula cell shows is the spreadsheet's own computation
Evaluated == [t |-> "evaluated", v |-> <<>>]
BlankCell == [value |-> Str(<<>>), formula |-> <<>>]
LiteralCell(x) == [value |-> x, formula |-> <<>>]
FormulaCell(text) == [value |-> Evaluated, formula |-> text]
\* what the sheet stores for one value of an appended row: a string that starts
\* with "=" is entered as a formula, undefined leaves the cell blank
SheetCell(x) ==
  IF IsString(x) /\ x.v # <<>> /\ x.v[1] = "="
  THEN FormulaCell(x.v)
  ELSE IF x.t = "undefined" THEN BlankCell ELSE LiteralCell(x)
SheetRow(values) == [j \in 1..Len(values) |-> SheetCell(values[j])]
\* an append that writes over the last row instead of below it
OverwriteLastRow(tbl, values) ==
  IF tbl = <<>> THEN <<SheetRow(values)>> ELSE [tbl EXCEPT ![Len(tbl)] = SheetRow(values)]
\* sheet.appendRow(values): one new row below the last row with content
AppendRow(tbl, values) == Append(tbl, SheetRow(values))

Max(S) == CHOOSE x \in S : \A y \in S : y <= x
LastContentColumn(r) == Max({0} \cup {j \in 1..Len(r) : r[j] # BlankCell})
\* columns of sheet.getDataRange()
DataWidth(tbl) == Max({1} \cup {LastContentColumn(tbl[i]) : i \in 1..Len(tbl)})
DataHeight(tbl) == Max({1, Len(tbl)})
CellAt(tbl, i, j) == IF i <= Len(tbl) /\ j <= Len(tbl[i]) THEN tbl[i][j] ELSE BlankCell
\* range.getValues()
GetValues(tbl) ==
  [i \in 1..DataHeight(tbl) |-> [j \in 1..DataWidth(tbl) |-> CellAt(tbl, i, j).value]]
\* range.getFormulas()
GetFormulas(tbl) ==
  [i \in 1..DataHeight(tbl) |-> [j \in 1..DataWidth(tbl) |-> Str(CellAt(tbl, i, j).formula)]]

\* a reader that prefers the value and falls back to the formula
ValueOrFormula(formulaText, value) == OrElse(value, formulaText)
\* rowFormulas[index] || row[index]
FormulaOrValue(formulaText, value) == OrElse(formulaText, value)
RECURSIVE ForEachHeader(_, _, _, _, _)
\* headers.forEach((header, index) => obj[header] = ...), from column index on
ForEachHeader(headers, rowValues, rowFormulas, index, obj) ==
  IF index > Len(headers) THEN obj
  ELSE LET key == StringOf(headers[index])
           val == FormulaOrValue(rowFormulas[index], rowValues[index])
       IN ForEachHeader(headers, rowValues, rowFormulas, index + 1,
                        [k \in (DOMAIN obj) \cup {key} |-> IF k = key THEN val ELSE obj[k]])
\* the loop over the data rows
SheetData(values, formulas) ==
  IF Len(values) < 2 THEN <<>>
  ELSE [n \in 1..(Len(values) - 1) |->
          ForEachHeader(values[1], values[n + 1], formulas[n + 1], 1, <<>>)]

\* ------------------------------------------------------- platform behaviour
\* Messages of the errors the platform raises (JSON.parse, a property read on
\* undefined, SpreadsheetApp / DriveApp / UrlFetchApp, Utilities.base64Decode).
JsonSyntaxErrorMsg ==
  <<"U","n","e","x","p","e","c","t","e","d"," ","t","o","k","e","n">>
TypeErrorMsg ==
  <<"C","a","n","n","o","t"," ","r","e","a","d"," ","p","r","o","p","e","r","t","i","e","s"," ",
    "o","f"," ","u","n","d","e","f","i","n","e","d">>
PlatformErrorMsg ==
  <<"S","e","r","v","i","c","e"," ","e","r","r","o","r">>
DecodeErrorMsg ==
  <<"C","o","u","l","d"," ","n","o","t"," ","d","e","c","o","d","e"," ","s","t","r","i","n","g",
    ".">>
DriveUrlPrefix ==
  <<"h","t","t","p","s",":","/","/","d","r","i","v","e",".","g","o","o","g","l","e",".","c","o",
    "m","/","f","i","l","e","/","d","/">>
Photo1Prefix ==
  <<"p","h","o","t","o","1","_">>
Photo2Prefix ==
  <<"p","h","o","t","o","2","_">>
PngSuffix ==
  <<".","p","n","g">>
Base64Alphabet == {"Q", "k", "0", "+", "/", "="}
\* Utilities.base64Decode(x) returns bytes (and does not throw)
Decodes(x) == IsString(x) /\ \A i \in 1..Len(x.v) : x.v[i] \in Base64Alphabet
\* file.getUrl() of the k-th file created in the folder
FileUrl(k) == DriveUrlPrefix \o <<DigitChar(k)>>
\* "photo<slot>_" + timestamp.getTime() + ".png"
FileName(slot, timestamp) ==
  (IF slot = 1 THEN Photo1Prefix ELSE Photo2Prefix) \o <<DigitChar(timestamp)>> \o PngSuffix

\* ------------------------------------------------------------------ inputs
\* the clock readings new Date() returns
Times == {0, 1}
TextChars == {"u", Quote}
RECURSIVE TextsOfLength(_)
TextsOfLength(n) ==
  IF n = 0 THEN {<<>>} ELSE {Append(s, c) : s \in TextsOfLength(n - 1), c \in TextChars}
Texts == UNION {TextsOfLength(n) : n \in 0..MaxStrLen}
OptionalTexts == {Undefined} \cup {Str(s) : s \in Texts}
\* is_validated: absent, a boolean, or a string
Flags == {Undefined, Bool(TRUE), Bool(FALSE), Str(TrueText)}
\* the properties of p that are present (undefined stands for an absent one)
Present(p) == [k \in {n \in DOMAIN p : p[n] # Undefined} |-> p[k]]

ValidationRecords ==
  {Obj(Present([company |-> c, validation_source |-> s, is_validated |-> f])) :
     c \in OptionalTexts, s \in OptionalTexts, f \in Flags}

People ==
  {Obj(Present([name |-> Str(<<"J", "o">>), role |-> Str(<<"C", "E", "O">>), contact |-> c])) :
     c \in {Undefined, Str(<<>>), Str(NotFound), Str(<<"7">>)}}
PeopleLists == UNION {[1..n -> People] : n \in 0..MaxPeople}
KeyPeopleRecords ==
  {Obj(Present([key_people |-> k, founder |-> f, ceo |-> c, owner |-> o])) :
     k \in {Undefined, Str(<<"k">>)} \cup {Arr(l) : l \in PeopleLists},
     f \in {Undefined, Str(<<>>), Str(<<"F">>)},
     c \in {Undefined, Str(<<"C">>)},
     o \in {Undefined, Str(<<"O">>)}}

\* the text fields the scripts read, and one ("fax") neither reads
TextFields ==
  {"company", "industry", "name", "title", "phone", "email", "website", "social_media",
   "address", "services", "company_size", "established_year", "founded_year",
   "registration_status", "trust_score", "about_the_company", "location", "fax"}
\* a text that tells the fields apart
FieldText(f) == <<f>>
FieldSubsets ==
  {{}, TextFields} \cup {{f} : f \in TextFields} \cup {TextFields \ {f} : f \in TextFields}
FieldRecords ==
  {Obj([k \in S \cup (IF flag = Undefined THEN {} ELSE {"is_validated"}) |->
          IF k = "is_validated" THEN flag ELSE Str(FieldText(k))]) :
     S \in FieldSubsets, flag \in Flags}
Records == ValidationRecords \cup KeyPeopleRecords \cup FieldRecords

ValidPhoto == Str(<<"Q", "k", "=">>)
InvalidPhoto == Str(<<"!">>)
Photos1 == {Undefined, ValidPhoto, InvalidPhoto}
Photos2 == {Undefined, Str(<<>>), Str(<<" ">>), ValidPhoto, InvalidPhoto}
\* a validated record with quotes to escape
SampleRecord ==
  Obj([company |-> Str(<<"u", Quote>>), validation_source |-> Str(<<Quote, "u">>),
       is_validated |-> Bool(TRUE)])

Body(action, extractedData, photo1Base64, photo2Base64) ==
  [action |-> action, extractedData |-> extractedData,
   photo1Base64 |-> photo1Base64, photo2Base64 |-> photo2Base64]
NoBody == Body(Undefined, Undefined, Undefined, Undefined)
\* postData: "missing" (no e, no postData), "empty" (contents ""), "invalid" (contents
\* is not JSON), "null" (contents is the JSON null), "object" (contents parses to body)
Post(postData, body) == [method |-> "POST", postData |-> postData, body |-> body]
GetRequest == [method |-> "GET", postData |-> "missing", body |-> NoBody]
SaveRequests ==
  {Post("object", Body(Str(ActSave), r, ValidPhoto, Undefined)) : r \in Records}
  \cup {Post("object", Body(Str(ActSave), r, p1, p2)) :
          r \in {Undefined, EmptyObject, SampleRecord}, p1 \in Photos1, p2 \in Photos2}
OtherRequests ==
  {Post(p, NoBody) : p \in {"missing", "empty", "invalid", "null"}}
  \cup {Post("object", Body(a, r, ValidPhoto, Undefined)) :
          a \in {Undefined, Str(<<>>), Str(<<"S", "A", "V", "E">>), Str(ActExtract)},
          r \in {Undefined, SampleRecord}}
ReadRequests == {Post("object", Body(Str(ActRead), Undefined, Undefined, Undefined)), GetRequest}
\* what the recognition backend may answer
OcrResults == {EmptyObject, SampleRecord}

\* sheets: a header row and data rows; every row has content in its first cell
HeaderRows ==
  { <<LiteralCell(Str(<<"A">>)), LiteralCell(Str(<<"B">>))>>,
    <<LiteralCell(Str(<<"A">>)), LiteralCell(Str(<<"A">>))>>,
    <<LiteralCell(Str(<<"A">>)), BlankCell>>,
    <<LiteralCell(Bool(TRUE)), LiteralCell(Str(TrueText))>> }
FirstCells == {LiteralCell(DateValue(0)), FormulaCell(<<"=", "1">>)}
OtherCells ==
  {BlankCell, LiteralCell(Str(<<"x">>)), LiteralCell(Bool(FALSE)),
   FormulaCell(HyperlinkOpen \o <<"u">> \o HyperlinkMid \o <<"u">> \o HyperlinkClose)}
DataRows == {<<a, b>> : a \in FirstCells, b \in OtherCells}
Grids == {<<h>> \o d : h \in HeaderRows, d \in UNION {[1..n -> DataRows] : n \in 0..MaxDataRows}}
\* an empty sheet, or a sheet with a header only
NewSheets == {<<>>} \cup {<<h>> : h \in HeaderRows}
\* a sheet in use: a header and a row with a formula cell
UsedSheet ==
  << <<LiteralCell(Str(<<"A">>)), LiteralCell(Str(<<"B">>))>>,
     <<LiteralCell(DateValue(0)), FormulaCell(<<"=", "1">>)>> >>

\* ------------------------------------------------------------------- state
VARIABLES
  schema,    \* which script is deployed: "Extended" or "Legacy"
  table,     \* the sheet "Ai Card": a sequence of rows of stored cells
  files,     \* the Drive folder: the files created, in creation order
  pc,        \* pc[w]: where execution w stands
  ev,        \* ev[w]: the request execution w handles
  loc,       \* loc[w]: saveData's local variables
  resp,      \* resp[w]: what the handler returned to the caller
  hist,      \* hist[w]: what has happened while handling the request (history)
  table0,    \* the sheet before any request (history)
  saved,     \* the saves that returned the confirmation (history)
  pending    \* requests still to arrive
vars == <<schema, table, files, pc, ev, loc, resp, hist, table0, saved, pending>>

Workers == 1..NumWorkers
NoLocals ==
  [timestamp |-> 0, url1 |-> <<>>, url2 |-> <<>>, validationLink |-> Undefined,
   keyPeopleString |-> <<>>]
NoResponse == [pending |-> TRUE]
NoHistory == [raisedAt |-> "none", dispatched |-> "none", photo1 |-> "none", photo2 |-> "none"]

\* ------------------------------------------------------------ the boundary
Raise(message) == [raised |-> TRUE, message |-> message, result |-> Undefined]
Return(result) == [raised |-> FALSE, message |-> <<>>, result |-> result]
\* a handler whose catch block is missing: the exception leaves the handler
RespondUncaught(outcome) ==
  IF outcome.raised
  THEN [exception |-> outcome.message]
  ELSE [success |-> TRUE, data |-> outcome.result]
\* the try / catch of doGet and doPost: the envelope for what the body did
Respond(outcome) ==
  IF outcome.raised
  THEN [success |-> FALSE, message |-> ScriptErrorPrefix \o outcome.message]
  ELSE [success |-> TRUE, data |-> outcome.result]

\* execution w ends at step with outcome, its history being h; the handler's
\* locals end with it
Finish(w, step, outcome, h) ==
  /\ resp' = [resp EXCEPT ![w] = Respond(outcome)]
  /\ pc' = [pc EXCEPT ![w] = "done"]
  /\ hist' = [hist EXCEPT ![w] = [h EXCEPT !.raisedAt = IF outcome.raised THEN step ELSE "none"]]
  /\ loc' = [loc EXCEPT ![w] = NoLocals]
\* execution w calls a handler function
Call(w, function) ==
  /\ pc' = [pc EXCEPT ![w] = function]
  /\ hist' = [hist EXCEPT ![w].dispatched = function]
  /\ UNCHANGED <<resp, loc>>

\* doGet(e)
DoGet(w) ==
  /\ pc[w] = "request"
  /\ ev[w].method = "GET"
  /\ Call(w, "getSheetData")
  /\ UNCHANGED <<schema, table, files, ev, table0, saved, pending>>

\* doPost(e) up to the call of the handler function
DoPost(w) ==
  /\ pc[w] = "request"
  /\ ev[w].method = "POST"
  /\ LET postData == ev[w].postData
         action == ev[w].body.action
     IN IF postData \in {"missing", "empty"}
        THEN Finish(w, "doPost", Raise(InvalidPostMsg), hist[w])
        ELSE IF postData = "invalid"
        THEN Finish(w, "doPost", Raise(JsonSyntaxErrorMsg), hist[w])
        ELSE IF postData = "null"
        THEN Finish(w, "doPost", Raise(TypeErrorMsg), hist[w])
        ELSE IF action = Str(ActExtract) THEN Call(w, "extractData")
        ELSE IF action = Str(ActSave) THEN Call(w, "saveData")
        ELSE IF action = Str(ActRead) /\ schema = "Extended" THEN Call(w, "getSheetData")
        ELSE Finish(w, "doPost", Raise(InvalidActionPrefix \o StringOf(action)), hist[w])
  /\ UNCHANGED <<schema, table, files, ev, table0, saved, pending>>

\* extractData(photo1Base64)
ExtractData(w) ==
  /\ pc[w] = "extractData"
  /\ \E answer \in {"unreachable", "not200", "notJson", "ok"}, parsed \in OcrResults :
       Finish(w, "extractData",
              CASE answer = "unreachable" -> Raise(PlatformErrorMsg)
                [] answer = "not200" -> Raise(AiServerErrorPrefix \o PlatformErrorMsg)
                [] answer = "notJson" -> Raise(JsonSyntaxErrorMsg)
                [] OTHER -> Return(parsed),
              hist[w])
  /\ UNCHANGED <<schema, table, files, ev, table0, saved, pending>>

\* saveData: SpreadsheetApp.openById(SHEET_ID).getSheetByName(SHEET_NAME)
SaveDataOpenSheet(w) ==
  /\ pc[w] = "saveData"
  /\ \E sheet \in {"ok", "throws", "null"} :
       IF sheet = "ok"
       THEN pc' = [pc EXCEPT ![w] = "openFolder"] /\ UNCHANGED <<resp, hist, loc>>
       ELSE Finish(w, "openSheet",
                   Raise(SpreadsheetFailPrefix
                         \o (IF sheet = "null" THEN SheetNameNotFoundMsg ELSE PlatformErrorMsg)),
                   hist[w])
  /\ UNCHANGED <<schema, table, files, ev, table0, saved, pending>>

\* saveData: DriveApp.getFolderById(FOLDER_ID), then timestamp = new Date()
SaveDataOpenFolder(w) ==
  /\ pc[w] = "openFolder"
  /\ \E folder \in {"ok", "throws"}, now \in Times :
       IF folder = "ok"
       THEN /\ pc' = [pc EXCEPT ![w] = "image1"]
            /\ loc' = [loc EXCEPT ![w].timestamp = now]
            /\ UNCHANGED <<resp, hist>>
       ELSE Finish(w, "openFolder", Raise(FolderFailPrefix \o PlatformErrorMsg), hist[w])
  /\ UNCHANGED <<schema, table, files, ev, table0, saved, pending>>

\* what storing an image gives: a file and its url, or the failure's handling
Stored(url) == [fatal |-> FALSE, state |-> "stored", url |-> url, message |-> <<>>]
\* no image to store: the url stays ""
Skipped == [fatal |-> FALSE, state |-> "skipped", url |-> <<>>, message |-> <<>>]
\* a photo1 failure handled the way photo2's is
Image1FailedSoftly(message) ==
  [fatal |-> FALSE, state |-> "failed", url |-> Image1FailPrefix \o message, message |-> <<>>]
\* catch of "Save Image 1": throw new Error("Failed to save Image 1: " + e.message)
Image1Failed(message) ==
  [fatal |-> TRUE, state |-> "failed", url |-> <<>>, message |-> Image1FailPrefix \o message]
\* a photo2 failure handled the way photo1's is
Image2FailedFatally(message) ==
  [fatal |-> TRUE, state |-> "failed", url |-> <<>>, message |-> Image2ErrorPrefix \o message]
\* catch of "Save Image 2": url2 = "Error saving image 2: " + e.message
Image2Failed(message) ==
  [fatal |-> FALSE, state |-> "failed", url |-> Image2ErrorPrefix \o message, message |-> <<>>]

\* saveData: Save Image 1
SaveDataImage1(w) ==
  /\ pc[w] = "image1"
  /\ \E createFile \in {"ok", "throws"} :
       LET image == IF ~Decodes(ev[w].body.photo1Base64) THEN Image1Failed(DecodeErrorMsg)
                    ELSE IF createFile = "throws" THEN Image1Failed(PlatformErrorMsg)
                    ELSE Stored(FileUrl(Len(files) + 1))
           h == [hist[w] EXCEPT !.photo1 = image.state]
       IN /\ files' = IF image.state = "stored"
                      THEN Append(files, FileName(1, loc[w].timestamp)) ELSE files
          /\ IF image.fatal
             THEN Finish(w, "image1", Raise(image.message), h)
             ELSE /\ loc' = [loc EXCEPT ![w].url1 = image.url]
                  /\ pc' = [pc EXCEPT ![w] = "image2"]
                  /\ hist' = [hist EXCEPT ![w] = h]
                  /\ resp' = resp
  /\ UNCHANGED <<schema, table, ev, table0, saved, pending>>

\* saveData: Save Image 2
SaveDataImage2(w) ==
  /\ pc[w] = "image2"
  /\ \E createFile \in {"ok", "throws"} :
       LET photo2Base64 == ev[w].body.photo2Base64
           image == IF ~(Truthy(photo2Base64) /\ Trim(photo2Base64.v) # <<>>) THEN Skipped
                    ELSE IF ~Decodes(photo2Base64) THEN Image2Failed(DecodeErrorMsg)
                    ELSE IF createFile = "throws" THEN Image2Failed(PlatformErrorMsg)
                    ELSE Stored(FileUrl(Len(files) + 1))
           h == [hist[w] EXCEPT !.photo2 = image.state]
       IN /\ files' = IF image.state = "stored"
                      THEN Append(files, FileName(2, loc[w].timestamp)) ELSE files
          /\ IF image.fatal
             THEN Finish(w, "image2", Raise(image.message), h)
             ELSE /\ loc' = [loc EXCEPT ![w].url2 = image.url]
                  /\ pc' = [pc EXCEPT ![w] = "hyperlink"]
                  /\ hist' = [hist EXCEPT ![w] = h]
                  /\ resp' = resp
  /\ UNCHANGED <<schema, table, ev, table0, saved, pending>>

\* saveData: Hyperlink Logic; reading a property of an undefined extractedData throws
SaveDataHyperlink(w) ==
  /\ pc[w] = "hyperlink"
  /\ LET extractedData == ev[w].body.extractedData
     IN IF extractedData.t # "object"
        THEN Finish(w, "hyperlink", Raise(TypeErrorMsg), hist[w])
        ELSE /\ loc' = [loc EXCEPT ![w].validationLink = ValidationLink(extractedData)]
             /\ pc' = [pc EXCEPT ![w] = IF schema = "Extended" THEN "keyPeople" ELSE "appendRow"]
             /\ UNCHANGED <<resp, hist>>
  /\ UNCHANGED <<schema, table, files, ev, table0, saved, pending>>

\* saveData: Format Key People (the Extended script only)
SaveDataKeyPeople(w) ==
  /\ pc[w] = "keyPeople"
  /\ loc' = [loc EXCEPT ![w].keyPeopleString = KeyPeopleString(ev[w].body.extractedData)]
  /\ pc' = [pc EXCEPT ![w] = "appendRow"]
  /\ UNCHANGED <<schema, table, files, ev, resp, hist, table0, saved, pending>>

\* the array literal handed to appendRow
RowOf(w) ==
  IF schema = "Extended"
  THEN ExtendedRow(ev[w].body.extractedData, loc[w].timestamp, loc[w].url1, loc[w].url2,
                   loc[w].validationLink, loc[w].keyPeopleString)
  ELSE LegacyRow(ev[w].body.extractedData, loc[w].timestamp, loc[w].url1, loc[w].url2,
                 loc[w].validationLink)

\* saveData: sheet.appendRow([...]) and the return of the confirmation
SaveDataAppendRow(w) ==
  /\ pc[w] = "appendRow"
  /\ \E appendRow \in {"ok", "throws"} :
       IF appendRow = "ok"
       THEN /\ table' = AppendRow(table, RowOf(w))
            /\ saved' = saved + 1
            /\ Finish(w, "appendRow", Return([message |-> SavedMsg]), hist[w])
       ELSE /\ Finish(w, "appendRow", Raise(PlatformErrorMsg), hist[w])
            /\ UNCHANGED <<table, saved>>
  /\ UNCHANGED <<schema, files, ev, table0, pending>>

\* getSheetData()
GetSheetData(w) ==
  /\ pc[w] = "getSheetData"
  /\ \E sheet \in {"ok", "throws", "null"} :
       Finish(w, "getSheetData",
              CASE sheet = "throws" -> Raise(PlatformErrorMsg)
                [] sheet = "null" -> Raise(SheetNotFoundMsg)
                [] OTHER -> Return(SheetData(GetValues(table), GetFormulas(table))),
              hist[w])
  /\ UNCHANGED <<schema, table, files, ev, table0, saved, pending>>

\* a request reaches an execution that is free
Arrive(w, e) ==
  /\ pending > 0
  /\ pc[w] \in {"idle", "done"}
  /\ e.method = "GET" => schema = "Extended"
  /\ pending' = pending - 1
  /\ ev' = [ev EXCEPT ![w] = e]
  /\ pc' = [pc EXCEPT ![w] = "request"]
  /\ loc' = [loc EXCEPT ![w] = NoLocals]
  /\ resp' = [resp EXCEPT ![w] = NoResponse]
  /\ hist' = [hist EXCEPT ![w] = NoHistory]
  /\ UNCHANGED <<schema, table, files, table0, saved>>

\* ---------------------------------------------------------- specifications
IdleRequest == Post("missing", NoBody)
\* one request, handled from start to end, on any sheet
Init ==
  /\ schema \in {"Extended", "Legacy"}
  /\ \/ /\ table \in NewSheets \cup {UsedSheet}
        /\ ev \in {[w \in Workers |-> IF w = 1 THEN e ELSE IdleRequest] :
                     e \in SaveRequests \cup OtherRequests}
     \/ /\ table \in Grids
        /\ ev \in {[w \in Workers |-> IF w = 1 THEN e ELSE IdleRequest] :
                     e \in ReadRequests}
  /\ ev[1].method = "GET" => schema = "Extended"
  /\ files = <<>>
  /\ pc = [w \in Workers |-> IF w = 1 THEN "request" ELSE "idle"]
  /\ loc = [w \in Workers |-> NoLocals]
  /\ resp = [w \in Workers |-> NoResponse]
  /\ hist = [w \in Workers |-> NoHistory]
  /\ table0 = table
  /\ saved = 0
  /\ pending = 0

\* the steps of saveData, in order
SaveStep(w) ==
  \/ SaveDataOpenSheet(w)
  \/ SaveDataOpenFolder(w)
  \/ SaveDataImage1(w)
  \/ SaveDataImage2(w)
  \/ SaveDataHyperlink(w)
  \/ SaveDataKeyPeople(w)
  \/ SaveDataAppendRow(w)
Step(w) == DoGet(w) \/ DoPost(w) \/ ExtractData(w) \/ SaveStep(w) \/ GetSheetData(w)
Next == \E w \in Workers : Step(w)
Spec == Init /\ [][Next]_vars

\* saves and reads arriving at concurrent executions of the Extended or Legacy script
ConcRequests ==
  { Post("object", Body(Str(ActSave), SampleRecord, ValidPhoto, InvalidPhoto)),
    Post("object", Body(Str(ActSave), EmptyObject, InvalidPhoto, Undefined)),
    Post("object", Body(Str(ActRead), Undefined, Undefined, Undefined)) }
InitConc ==
  /\ schema \in {"Extended", "Legacy"}
  /\ table \in {<<>>, UsedSheet}
  /\ files = <<>>
  /\ ev = [w \in Workers |-> IdleRequest]
  /\ pc = [w \in Workers |-> "idle"]
  /\ loc = [w \in Workers |-> NoLocals]
  /\ resp = [w \in Workers |-> NoResponse]
  /\ hist = [w \in Workers |-> NoHistory]
  /\ table0 = table
  /\ saved = 0
  /\ pending = MaxRequests
NextConc ==
  \/ \E w \in Workers, e \in ConcRequests : Arrive(w, e)
  \/ \E w \in Workers : DoPost(w) \/ SaveStep(w) \/ GetSheetData(w)
SpecConc == InitConc /\ [][NextConc]_vars

\* ------------------------------------------------------------------ claims
IsSuccessEnvelope(r) == DOMAIN r = {"success", "data"} /\ r.success = TRUE
IsFailureEnvelope(r) ==
  /\ DOMAIN r = {"success", "message"}
  /\ r.success = FALSE
  /\ Len(r.message) > Len(ScriptErrorPrefix)
IsSave(e) == e.method = "POST" /\ e.postData = "object" /\ e.body.action = Str(ActSave)
\* the row a finished save added to the sheet
LastRow == table[Len(table)]

\* C1: every request that reached doGet or doPost and has been handled has exactly
\* one response, and it is an envelope: {success: false, message} when a step of the
\* handling raised, {success: true, data} when none did; no exception leaves the
\* handler, and a request still being handled has no response yet.
C1_AlwaysOneEnvelope ==
  \A w \in Workers :
    /\ pc[w] = "done" =>
         IF hist[w].raisedAt # "none"
         THEN IsFailureEnvelope(resp[w])
         ELSE IsSuccessEnvelope(resp[w])
    /\ pc[w] # "done" => resp[w] = NoResponse
\* an error raised inside saveData came back as a failure envelope
C1_Witness ==
  \E w \in Workers :
    /\ pc[w] = "done"
    /\ hist[w].dispatched = "saveData"
    /\ hist[w].raisedAt = "appendRow"
    /\ IsFailureEnvelope(resp[w])

\* C2: when storing photo1 failed (it does not decode, or the folder rejected the
\* file), the save has ended in a failure envelope, the sheet is the sheet as it
\* was before the save, and no file was created.
C2_Photo1FailureIsFatal ==
  \A w \in Workers :
    hist[w].photo1 = "failed" =>
      /\ pc[w] = "done"
      /\ IsFailureEnvelope(resp[w])
      /\ table = table0
      /\ files = <<>>
\* a save whose photo1 is not base64 has ended
C2_Witness ==
  \E w \in Workers :
    /\ IsSave(ev[w])
    /\ ev[w].body.photo1Base64 = InvalidPhoto
    /\ hist[w].photo1 = "failed"
    /\ pc[w] = "done"
    /\ table0 = UsedSheet

Columns == IF schema = "Extended" THEN ExtendedColumns ELSE LegacyColumns

\* C4: under any interleaving of the executions, the sheet holds one more row per
\* save that returned the confirmation (the sheet before plus the count of such
\* saves); every step leaves the rows already in the sheet as they are; a step
\* changes the sheet only by adding, below them, the whole row one finishing save
\* built (all cells of the schema, in one row), and every save that returns the
\* confirmation adds one.
C4_AppendOnly ==
  /\ [](Len(table) = Len(table0) + saved)
  /\ [][ /\ SubSeq(table', 1, Len(table)) = table
         /\ Len(table') \in {Len(table), Len(table) + 1}
         /\ Len(table') = Len(table) + 1 =>
              \E w \in Workers :
                /\ pc[w] = "appendRow"
                /\ pc'[w] = "done"
                /\ IsSuccessEnvelope(resp'[w])
                /\ table'[Len(table')] = SheetRow(RowOf(w))
                /\ Len(table'[Len(table')]) = Columns
         /\ \A w \in Workers :
              (pc[w] = "appendRow" /\ pc'[w] = "done" /\ IsSuccessEnvelope(resp'[w]))
                => Len(table') = Len(table) + 1
       ]_vars
\* two executions saved the same record and the sheet has two more rows
C4_Witness ==
  /\ saved = 2
  /\ Len(table) = Len(table0) + 2
  /\ table0 = UsedSheet
  /\ \E w, v \in Workers :
       /\ w # v
       /\ IsSave(ev[w])
       /\ ev[w] = ev[v]
       /\ pc[w] = "done" /\ pc[v] = "done"
       /\ IsSuccessEnvelope(resp[w]) /\ IsSuccessEnvelope(resp[v])

\* the column of each text field in the row, by schema
ColumnOf ==
  IF schema = "Extended"
  THEN [company |-> 4, industry |-> 5, name |-> 6, title |-> 7, phone |-> 8, email |-> 9,
        website |-> 10, social_media |-> 11, address |-> 12, services |-> 13,
        company_size |-> 14, established_year |-> 15, registration_status |-> 16,
        trust_score |-> 17, about_the_company |-> 21, location |-> 22]
  ELSE [company |-> 4, name |-> 5, phone |-> 6, email |-> 7, address |-> 8,
        about_the_company |-> 11, location |-> 12]
FlagColumn == IF schema = "Extended" THEN 19 ELSE 9
LinkColumn == IF schema = "Extended" THEN 20 ELSE 10
KeyPeopleColumn == 18
\* the record's value for the column of field f (founded_year stands in for
\* established_year)
FieldOf(extractedData, f) ==
  IF f = "established_year" /\ Get(extractedData, f) = Undefined
  THEN Get(extractedData, "founded_year")
  ELSE Get(extractedData, f)

\* C5: the row a save hands to appendRow has exactly the schema's column count,
\* each text field present in the record sits in its column, the cell of each
\* text field missing from the record is the empty string, the cell of a missing
\* is_validated is false or the empty string, and no cell is undefined.
C5_RowIsNormalized ==
  \A w \in Workers :
    pc[w] = "appendRow" =>
      LET extractedData == ev[w].body.extractedData
          row == RowOf(w)
      IN /\ Len(row) = Columns
         /\ \A f \in DOMAIN ColumnOf :
              row[ColumnOf[f]] = IF FieldOf(extractedData, f) = Undefined
                                 THEN Str(<<>>)
                                 ELSE FieldOf(extractedData, f)
         /\ Get(extractedData, "is_validated") = Undefined =>
              row[FlagColumn] \in {Bool(FALSE), Str(<<>>)}
         /\ \A j \in 1..Len(row) : row[j] # Undefined

\* the requests the claim calls malformed
IsMalformed(e) ==
  /\ e.method = "POST"
  /\ \/ e.postData # "object"
     \/ e.body.action \notin {Str(ActExtract), Str(ActSave), Str(ActRead)}
     \/ e.body.action = Str(ActSave) /\ e.body.extractedData = Undefined

\* C9: a malformed request (no body, a body that is not JSON or not an object, an
\* action other than extract / save / read, a save without a record) never gets
\* a handler function called, never stores a file, never adds a row, and ends in
\* a failure envelope.
C9_MalformedAbortsBeforeDispatch ==
  \A w \in Workers :
    IsMalformed(ev[w]) /\ pc[w] # "idle" =>
      /\ hist[w].dispatched = "none"
      /\ files = <<>>
      /\ table = table0
      /\ pc[w] = "done" => IsFailureEnvelope(resp[w])

\* ----- the validation cell, as the claims state it
RECURSIVE DoubleQuotes(_)
\* s with every double quote written twice
DoubleQuotes(s) ==
  IF s = <<>> THEN <<>>
  ELSE (IF Head(s) = Quote THEN <<Quote, Quote>> ELSE <<Head(s)>>) \o DoubleQuotes(Tail(s))
RECURSIVE HalveQuotes(_)
\* the decoding: every pair of double quotes read as one
HalveQuotes(s) ==
  IF s = <<>> THEN <<>>
  ELSE IF Len(s) >= 2 /\ s[1] = Quote /\ s[2] = Quote
       THEN <<Quote>> \o HalveQuotes(SubSeq(s, 3, Len(s)))
       ELSE <<Head(s)>> \o HalveQuotes(Tail(s))
IsFalsy(x) == x \in {Undefined, Bool(FALSE), Str(<<>>)}
TextOf(x) == IF x = Undefined THEN <<>> ELSE x.v
HyperlinkFormula(url, label) ==
  HyperlinkOpen \o url \o HyperlinkMid \o label \o <<" ", "L", "i", "n", "k", Quote, ")">>
LabelOf(extractedData) ==
  IF TextOf(Get(extractedData, "company")) = <<>>
  THEN <<"S", "o", "u", "r", "c", "e">>
  ELSE TextOf(Get(extractedData, "company"))
\* execution w is a save past its hyperlink step
LinkBuilt(w) == pc[w] \in {"keyPeople", "appendRow"}
\* execution w is a save that has just added LastRow
RowAdded(w) ==
  /\ pc[w] = "done"
  /\ hist[w].dispatched = "saveData"
  /\ hist[w].raisedAt = "none"
\* the cell as the claim gives it
ClaimedValidationCell(extractedData) ==
  LET source == TextOf(Get(extractedData, "validation_source"))
  IN IF IsFalsy(Get(extractedData, "is_validated")) \/ source = <<>>
     THEN source
     ELSE HyperlinkFormula(DoubleQuotes(source), DoubleQuotes(LabelOf(extractedData)))

IsEscaped(url) == \E s \in Texts : url = DoubleQuotes(s) /\ \E i \in 1..Len(s) : s[i] = Quote
IsValidatedWith(extractedData) ==
  /\ ~IsFalsy(Get(extractedData, "is_validated"))
  /\ TextOf(Get(extractedData, "validation_source")) # <<>>

RECURSIVE Lines(_)
\* the texts, one per line
Lines(texts) ==
  IF texts = <<>> THEN <<>>
  ELSE IF Len(texts) = 1 THEN texts[1]
  ELSE texts[1] \o <<Newline>> \o Lines(Tail(texts))
HasList(extractedData) == Get(extractedData, "key_people").t = "array"
\* contact is present (a non-empty text) and is not "Not Found"
HasContact(p) ==
  /\ TextOf(Get(p, "contact")) # <<>>
  /\ TextOf(Get(p, "contact")) # <<"N", "o", "t", " ", "F", "o", "u", "n", "d">>
ClaimedEntry(p) ==
  TextOf(Get(p, "name")) \o <<" ", "(">> \o TextOf(Get(p, "role")) \o <<")">>
  \o (IF HasContact(p) THEN <<" ", "-", " ">> \o TextOf(Get(p, "contact")) ELSE <<>>)
RoleLines ==
  << [field |-> "founder", prefix |-> <<"F", "o", "u", "n", "d", "e", "r", ":", " ">>],
     [field |-> "ceo", prefix |-> <<"C", "E", "O", ":", " ">>],
     [field |-> "owner", prefix |-> <<"O", "w", "n", "e", "r", ":", " ">>] >>
ClaimedKeyPeople(extractedData) ==
  IF HasList(extractedData)
  THEN LET list == Get(extractedData, "key_people").v
       IN Lines([i \in 1..Len(list) |-> ClaimedEntry(list[i])])
  ELSE LET IsGiven(r) == TextOf(Get(extractedData, r.field)) # <<>>
           given == SelectSeq(RoleLines, IsGiven)
       IN Lines([i \in 1..Len(given) |->
                   given[i].prefix \o TextOf(Get(extractedData, given[i].field))])

\* C8: in the Extended script the key-people text, and the key-people cell of the
\* row handed to appendRow, is: with a key_people list, its entries in list order,
\* one per line, each "{name} ({role})" followed by " - {contact}" exactly when
\* contact is a non-empty text other than "Not Found"; without a list, the lines
\* "Founder: ..", "CEO: ..", "Owner: .." in that order for exactly the fields
\* that are non-empty (no line at all, the empty string, when none is).
C8_KeyPeopleCell ==
  \A w \in Workers :
    (pc[w] = "appendRow" /\ schema = "Extended") =>
      /\ loc[w].keyPeopleString = ClaimedKeyPeople(ev[w].body.extractedData)
      /\ RowOf(w)[KeyPeopleColumn] = Str(ClaimedKeyPeople(ev[w].body.extractedData))
\* a list of two people, the first with the "Not Found" contact, the second with a
\* number, has been flattened
C8_Witness ==
  \E w \in Workers :
    /\ pc[w] = "appendRow"
    /\ schema = "Extended"
    /\ HasList(ev[w].body.extractedData)
    /\ Len(Get(ev[w].body.extractedData, "key_people").v) = 2
    /\ loc[w].keyPeopleString
         = <<"J", "o", " ", "(", "C", "E", "O", ")", Newline,
             "J", "o", " ", "(", "C", "E", "O", ")", " ", "-", " ", "7">>

\* ----- the read, as the claim states it
\* the text of a header cell, as a property name
HeaderName(j) == StringOf(CellAt(table, 1, j).value)
\* what the reader gives for the cell in row i, column j of the sheet
ClaimedCell(i, j) ==
  IF CellAt(table, i, j).formula # <<>>
  THEN Str(CellAt(table, i, j).formula)
  ELSE CellAt(table, i, j).value
IsRead(w) == hist[w].dispatched = "getSheetData" /\ pc[w] = "done" /\ hist[w].raisedAt = "none"

\* C7: a read that did not raise returns, for a sheet of fewer than two rows, the
\* empty sequence, and otherwise one record per row below the header, in row order;
\* the properties of each record are the header names of the columns of the data
\* range (up to the last column with content), and a header name maps to
\* the stored formula text of the row's cell in that header's column when the cell
\* has a formula and to the cell's value otherwise (of several columns with one
\* header name, the last is the one the name maps to).
C7_ReadReconciles ==
  \A w \in Workers :
    IsRead(w) =>
      /\ IsSuccessEnvelope(resp[w])
      /\ IF Len(table) < 2
         THEN resp[w].data = <<>>
         ELSE /\ Len(resp[w].data) = Len(table) - 1
              /\ \A n \in 1..(Len(table) - 1) :
                   LET record == resp[w].data[n]
                       width == DataWidth(table)
                   IN /\ DOMAIN record = {HeaderName(j) : j \in 1..width}
                      /\ \A j \in 1..width :
                           (\A k \in (j + 1)..width : HeaderName(k) # HeaderName(j))
                             => record[HeaderName(j)] = ClaimedCell(n + 1, j)
\* a read of a sheet with two data rows, one with a literal and one with a formula
\* in the second column, under distinct header names
C7_Witness ==
  \E w \in Workers :
    /\ IsRead(w)
    /\ Len(table) = 3
    /\ HeaderName(1) # HeaderName(2)
    /\ table[2][2].formula = <<>> /\ table[2][2].value = Str(<<"x">>)
    /\ table[3][2].formula # <<>>
    /\ resp[w].data[2][HeaderName(2)] = Str(table[3][2].formula)
    /\ resp[w].data[1][HeaderName(2)] = Str(<<"x">>)
====
